---- MODULE Spec2Model ----
(***************************************************************************)
(* A model of the canvas package (canvas.go): the cached cursor, colours   *)
(* and style of a Canvas, the escape sequences its drawing operations      *)
(* append to the pending buffer, Flush, and the mutex-guarded variants     *)
(* called by concurrent drawing tasks.                                     *)
(*                                                                         *)
(* Strings are sequences of bytes.  A byte is written as a short token:    *)
(* an ASCII byte by its character ("a", "[", "%"), the escape byte 0x1b as *)
(* "ESC", any other byte by its two hex digits ("E2").                     *)
(***************************************************************************)
EXTENDS Integers, Sequences, FiniteSets, TLC

VARIABLES cv, pre, call, ret, written, emit, mutex, pc, req, actor,
          term, prog, orch

vars == <<cv, pre, call, ret, written, emit, mutex, pc, req, actor,
          term, prog, orch>>

\* The terminal model, the positions of the drawing tasks in their program
\* and the state of the orchestrator, which the specifications of the
\* canvas alone leave as they are.
others == <<term, prog, orch>>

(***************************************************************************)
(* Bounds of the model.                                                    *)
(***************************************************************************)
MaxWidth == 3

MaxHeight == 2

MaxBuf == 1

WaveWidth == 1

(***************************************************************************)
(* unicode/utf8 as far as the package uses it.                             *)
(***************************************************************************)
Lead2 == {"C3"}

Lead3 == {"E2", "EF"}

Cont == {"80", "A2", "A9", "BF", "BD"}

\* The bytes of the rune U+FFFD, which decoding yields for an invalid byte.
RuneError == <<"EF", "BF", "BD">>

\* The width the decoder announces for a first byte.
LeadWidth(b) == IF b \in Lead2 THEN 2 ELSE IF b \in Lead3 THEN 3 ELSE 1

\* Whether a whole, valid encoding starts at s[i].
ValidAt(s, i) ==
    /\ s[i] \notin Cont
    /\ i + LeadWidth(s[i]) - 1 <= Len(s)
    /\ \A k \in 1..(LeadWidth(s[i]) - 1) : s[i + k] \in Cont

\* utf8.DecodeRuneInString(s[i:]): the number of bytes the rune at i takes;
\* an invalid or cut encoding is one rune (RuneError) of width 1.
DecodeSize(s, i) == IF ValidAt(s, i) THEN LeadWidth(s[i]) ELSE 1

RECURSIVE RuneCountFrom(_, _)
RuneCountFrom(s, i) ==
    IF i > Len(s) THEN 0 ELSE 1 + RuneCountFrom(s, i + DecodeSize(s, i))

\* utf8.RuneCountInString
RuneCountInString(s) == RuneCountFrom(s, 1)

(***************************************************************************)
(* strconv.Itoa for the non-negative numbers the package formats.          *)
(***************************************************************************)
Digits == <<"0", "1", "2", "3", "4", "5", "6", "7", "8", "9">>

RECURSIVE Itoa(_)
Itoa(n) == IF n < 10 THEN <<Digits[n + 1]>>
           ELSE Itoa(n \div 10) \o <<Digits[(n % 10) + 1]>>

(***************************************************************************)
(* fmt.Printf(format) called without operands: every byte is copied but a  *)
(* '%' starts a verb.  After the flags, a missing verb prints %!(NOVERB),  *)
(* the verb '%' prints '%', any other verb prints %!v(MISSING).  Widths,   *)
(* precisions and argument indexes ('*', '.', '[', digits) cannot follow a *)
(* '%' in the buffers of this model and are not parsed.                    *)
(***************************************************************************)
PrintfFlags == {"#", "0", "+", "-", " "}

noVerbString == <<"%", "!", "(", "N", "O", "V", "E", "R", "B", ")">>

percentBangString == <<"%", "!">>

missingString == <<"(", "M", "I", "S", "S", "I", "N", "G", ")">>

RECURSIVE SkipFlags(_, _)
SkipFlags(s, i) ==
    IF i <= Len(s) /\ s[i] \in PrintfFlags THEN SkipFlags(s, i + 1) ELSE i

\* What the verb starting at s[i] prints when there is no operand for it.
PrintVerb(s, i) ==
    IF s[i] = "%" THEN <<"%">>
    ELSE percentBangString
         \o (IF ValidAt(s, i) THEN SubSeq(s, i, i + DecodeSize(s, i) - 1)
             ELSE RuneError)
         \o missingString

\* The index of the first '%' of s at or after i, Len(s) + 1 if there is none.
NextPercent(s, i) ==
    IF \E k \in i..Len(s) : s[k] = "%"
    THEN CHOOSE k \in i..Len(s) :
             s[k] = "%" /\ \A j \in i..(k - 1) : s[j] # "%"
    ELSE Len(s) + 1

\* doPrintf from s[i]: the bytes up to the next '%' are copied in one piece.
RECURSIVE PrintfFrom(_, _)
PrintfFrom(s, i) ==
    IF i > Len(s) THEN <<>>
    ELSE LET k == NextPercent(s, i) IN
         IF k > i THEN SubSeq(s, i, k - 1) \o PrintfFrom(s, k)
         ELSE LET j == SkipFlags(s, i + 1) IN
              IF j > Len(s) THEN noVerbString
              ELSE PrintVerb(s, j) \o PrintfFrom(s, j + DecodeSize(s, j))

Printf(format) == PrintfFrom(format, 1)

(***************************************************************************)
(* Colours and styles.                                                     *)
(***************************************************************************)
ColorDefault == [RGBA |-> "nil", Term256 |-> 0, isDefault |-> TRUE]

ColorBlack == [RGBA |-> "nil", Term256 |-> 0, isDefault |-> FALSE]

ColorRed == [RGBA |-> "nil", Term256 |-> 1, isDefault |-> FALSE]

ColorYellow == [RGBA |-> "nil", Term256 |-> 3, isDefault |-> FALSE]

\* The zero value of Color, which the fields of a new Canvas hold.
ZeroColor == [RGBA |-> "nil", Term256 |-> 0, isDefault |-> FALSE]

StyleNoChange == 1

StyleNormal == 2

StyleBold == 4

StyleDim == 8

StyleUnderlined == 16

StyleBlink == 32

StyleInverted == 64

StyleHidden == 128

\* style & bit != 0, for a bit that is a power of two.
HasBit(style, bit) == (style \div bit) % 2 = 1

escape == <<"ESC">>

(***************************************************************************)
(* The Canvas.  Logger holds the messages errorF has handed to the         *)
(* diagnostic sink during the current call.                                *)
(***************************************************************************)
errorF(c, msg) == [c EXCEPT !.Logger = Append(@, msg)]

BufWrite(c, s) == [c EXCEPT !.buf = @ \o s]

\* Canvas.setBgFg (every colour of the model has a nil RGBA).
setBgFg(c, clr, bg) ==
    LET op == IF bg THEN <<"4">> ELSE <<"3">> IN
    IF clr.isDefault
    THEN BufWrite(c, escape \o <<"[">> \o op \o <<"9", "m">>)
    ELSE BufWrite(c, escape \o <<"[">> \o op \o <<"8", ";", "5", ";">>
                     \o Itoa(clr.Term256) \o <<"m">>)

SetBackground(c, clr) ==
    IF c.bg = clr THEN c ELSE [setBgFg(c, clr, TRUE) EXCEPT !.bg = clr]

SetForeground(c, clr) ==
    IF c.fg = clr THEN c ELSE [setBgFg(c, clr, FALSE) EXCEPT !.fg = clr]

StyleCode(style, bit, code) ==
    IF HasBit(style, bit) THEN escape \o <<"[", code, "m">> ELSE <<>>

\* SetStyle without its early return.
SetStyleAlways(c, style) ==
    [BufWrite(c, StyleCode(style, StyleNormal, "0")
                 \o StyleCode(style, StyleBold, "1")
                 \o StyleCode(style, StyleDim, "2")
                 \o StyleCode(style, StyleUnderlined, "4")
                 \o StyleCode(style, StyleBlink, "5")
                 \o StyleCode(style, StyleInverted, "7")
                 \o StyleCode(style, StyleHidden, "8"))
     EXCEPT !.style = style]

\* SetStyle writing the reset after the other attributes.
SetStyleResetLast(c, style) ==
    IF c.style = style THEN c
    ELSE [BufWrite(c, StyleCode(style, StyleBold, "1")
                      \o StyleCode(style, StyleDim, "2")
                      \o StyleCode(style, StyleUnderlined, "4")
                      \o StyleCode(style, StyleBlink, "5")
                      \o StyleCode(style, StyleInverted, "7")
                      \o StyleCode(style, StyleHidden, "8")
                      \o StyleCode(style, StyleNormal, "0"))
          EXCEPT !.style = style]

SetStyle(c, style) ==
    IF c.style = style THEN c
    ELSE [BufWrite(c, StyleCode(style, StyleNormal, "0")
                      \o StyleCode(style, StyleBold, "1")
                      \o StyleCode(style, StyleDim, "2")
                      \o StyleCode(style, StyleUnderlined, "4")
                      \o StyleCode(style, StyleBlink, "5")
                      \o StyleCode(style, StyleInverted, "7")
                      \o StyleCode(style, StyleHidden, "8"))
          EXCEPT !.style = style]

\* The closure move of Canvas.Move: one relative motion, or nothing.
MoveAxis(curr, given, forwardOp, backwardOp) ==
    IF curr < given THEN escape \o <<"[">> \o Itoa(given - curr) \o <<forwardOp>>
    ELSE IF curr > given THEN escape \o <<"[">> \o Itoa(curr - given) \o <<backwardOp>>
    ELSE <<>>

\* Move with the right edge checked one column too far.
MoveEdgeOffByOne(c, x, y) ==
    IF c.x = x /\ c.y = y THEN [c |-> c, err |-> "nil"]
    ELSE IF x > c.Width \/ x < 0 \/ y > c.Height - 1 \/ y < 0
    THEN [c |-> errorF(c, "out of bounds"), err |-> "ErrorOutOfBounds"]
    ELSE [c |-> [BufWrite(c, MoveAxis(c.x, x, "C", "D") \o MoveAxis(c.y, y, "B", "A"))
                 EXCEPT !.x = x, !.y = y],
          err |-> "nil"]

\* Move with the vertical motion written before the horizontal one.
MoveVerticalFirst(c, x, y) ==
    IF c.x = x /\ c.y = y THEN [c |-> c, err |-> "nil"]
    ELSE IF x > c.Width - 1 \/ x < 0 \/ y > c.Height - 1 \/ y < 0
    THEN [c |-> errorF(c, "out of bounds"), err |-> "ErrorOutOfBounds"]
    ELSE [c |-> [BufWrite(c, MoveAxis(c.y, y, "B", "A") \o MoveAxis(c.x, x, "C", "D"))
                 EXCEPT !.x = x, !.y = y],
          err |-> "nil"]

\* Canvas.Move: the canvas afterwards and the error returned.
Move(c, x, y) ==
    IF c.x = x /\ c.y = y THEN [c |-> c, err |-> "nil"]
    ELSE IF x > c.Width - 1 \/ x < 0 \/ y > c.Height - 1 \/ y < 0
    THEN [c |-> errorF(c, "out of bounds"), err |-> "ErrorOutOfBounds"]
    ELSE [c |-> [BufWrite(c, MoveAxis(c.x, x, "C", "D") \o MoveAxis(c.y, y, "B", "A"))
                 EXCEPT !.x = x, !.y = y],
          err |-> "nil"]

\* Write without the clamp to the last column.
WriteNoClamp(c, text) ==
    LET r == c.Width - c.x
        cut == RuneCountInString(text) > r
        t == IF cut THEN SubSeq(text, 1, r) ELSE text
        c1 == IF cut THEN errorF(c, "string truncated") ELSE c
    IN [BufWrite(c1, t) EXCEPT !.x = @ + RuneCountInString(t)]

\* Write advancing the cursor by the bytes written, not the runes.
WriteCountsBytes(c, text) ==
    LET r == c.Width - c.x
        cut == RuneCountInString(text) > r
        t == IF cut THEN SubSeq(text, 1, r) ELSE text
        c1 == IF cut THEN errorF(c, "string truncated") ELSE c
        c2 == [BufWrite(c1, t) EXCEPT !.x = @ + Len(t)]
    IN IF c2.x >= c2.Width THEN Move(c2, c2.Width - 1, c2.y).c ELSE c2

\* Canvas.Write; text[0:r] cuts bytes.
Write(c, text) ==
    LET r == c.Width - c.x
        cut == RuneCountInString(text) > r
        t == IF cut THEN SubSeq(text, 1, r) ELSE text
        c1 == IF cut THEN errorF(c, "string truncated") ELSE c
        c2 == [BufWrite(c1, t) EXCEPT !.x = @ + RuneCountInString(t)]
    IN IF c2.x >= c2.Width THEN Move(c2, c2.Width - 1, c2.y).c ELSE c2

\* Canvas.Set; char is the UTF-8 encoding string(char) of the rune.
Set(c, x, y, char) ==
    LET m == Move(c, x, y) IN
    IF m.err = "nil" THEN Write(m.c, char) ELSE m.c

\* WriteAt going on after a failed Move.
WriteAtIgnoresError(c, x, y, foreground, background, style, text) ==
    Write(SetBackground(SetForeground(SetStyle(Move(c, x, y).c, style), foreground),
                        background), text)

\* WriteAt setting the colours before the style.
WriteAtColoursFirst(c, x, y, foreground, background, style, text) ==
    LET m == Move(c, x, y) IN
    IF m.err # "nil" THEN m.c
    ELSE Write(SetStyle(SetBackground(SetForeground(m.c, foreground), background),
                        style), text)

WriteAt(c, x, y, foreground, background, style, text) ==
    LET m == Move(c, x, y) IN
    IF m.err # "nil" THEN m.c
    ELSE Write(SetBackground(SetForeground(SetStyle(m.c, style), foreground),
                             background), text)

\* Canvas.Flush: the canvas afterwards, the buffer handed to the one Printf
\* call as its format, and what that call prints.
Flush(c) ==
    LET c1 == IF c.CursorOnEnd THEN Move(c, c.Width - 1, c.Height - 1).c ELSE c
    IN [c |-> [c1 EXCEPT !.buf = <<>>], buf |-> c1.buf, out |-> Printf(c1.buf)]

RECURSIVE WriteBlanks(_, _)
WriteBlanks(c, n) == IF n = 0 THEN c ELSE WriteBlanks(Write(c, <<" ">>), n - 1)

\* ClearRows going down to the next row without going back to its start.
RECURSIVE ClearRowsSameColumn(_, _)
ClearRowsSameColumn(c, i) ==
    IF i >= c.Height THEN c
    ELSE LET c1 == WriteBlanks(c, c.Width)
             c2 == IF i < c.Height - 1 THEN Move(c1, c1.x, i + 1).c ELSE c1
         IN ClearRowsSameColumn(c2, i + 1)

RECURSIVE ClearRows(_, _)
ClearRows(c, i) ==
    IF i >= c.Height THEN c
    ELSE LET c1 == WriteBlanks(c, c.Width)
             c2 == IF i < c.Height - 1 THEN Move(c1, 0, i + 1).c ELSE c1
         IN ClearRows(c2, i + 1)

Clear(c) == Move(ClearRows(Move(c, 0, 0).c, 0), 0, 0).c

RECURSIVE Blanks(_)
Blanks(n) == IF n = 0 THEN <<>> ELSE <<" ">> \o Blanks(n - 1)

RECURSIVE FillRows(_, _, _)
FillRows(c, background, i) ==
    IF i >= c.Height THEN c
    ELSE LET c1 == BufWrite(c, Blanks(c.Width))
             c2 == IF i < c.Height - 1
                   THEN SetBackground(
                            BufWrite(SetBackground(c1, ColorDefault), <<"\n">>),
                            background)
                   ELSE c1
         IN FillRows(c2, background, i + 1)

\* The Canvas literal of NewCanvas: every other field holds its zero value.
ZeroCanvas(width, height, background) ==
    [Width |-> width, Height |-> height, Logger |-> <<>>,
     Background |-> background, CursorOnEnd |-> FALSE, buf |-> <<>>,
     x |-> 0, y |-> 0, fg |-> ZeroColor, bg |-> ZeroColor, style |-> 0]

\* NewCanvasFilled without the assignment that puts the cached cursor
\* where the fill has left the terminal's.
NewCanvasFilledFromOrigin(width, height, background) ==
    LET c0 == ZeroCanvas(width, height, background)
        c1 == SetStyle(SetBackground(c0, background), StyleNormal)
        c2 == FillRows(c1, background, 0)
    IN Move(c2, 0, 0).c

\* NewCanvas up to the statement before its Flush.
NewCanvasFilled(width, height, background) ==
    LET c0 == ZeroCanvas(width, height, background)
        c1 == SetStyle(SetBackground(c0, background), StyleNormal)
        c2 == FillRows(c1, background, 0)
        c3 == [c2 EXCEPT !.x = width, !.y = height - 1]
    IN Move(c3, 0, 0).c

NewCanvas(width, height, background) ==
    Flush(NewCanvasFilled(width, height, background))

(***************************************************************************)
(* What the canvas has last emitted on each channel: the parameters of the *)
(* last foreground and background sequence appended to the buffer, and the *)
(* style sequences of the last call that appended any (<<>>: none yet).    *)
(***************************************************************************)
CsiFinals == {"m", "A", "B", "C", "D"}

\* The index of the final byte of the escape sequence that starts at s[i].
CsiEnd(s, i) ==
    CHOOSE j \in (i + 1)..Len(s) :
        s[j] \in CsiFinals /\ \A k \in (i + 1)..(j - 1) : s[k] \notin CsiFinals

RECURSIVE ScanEmit(_, _, _, _)
ScanEmit(s, i, e, sty) ==
    IF i > Len(s)
    THEN [e EXCEPT !.style = IF sty = <<>> THEN @ ELSE sty]
    ELSE IF s[i] # "ESC" THEN ScanEmit(s, i + 1, e, sty)
    ELSE LET j == CsiEnd(s, i)
             params == SubSeq(s, i + 2, j - 1)
         IN IF s[j] # "m" THEN ScanEmit(s, j + 1, e, sty)
            ELSE IF Len(params) >= 2 /\ params[1] = "3"
            THEN ScanEmit(s, j + 1, [e EXCEPT !.fg = params], sty)
            ELSE IF Len(params) >= 2 /\ params[1] = "4"
            THEN ScanEmit(s, j + 1, [e EXCEPT !.bg = params], sty)
            ELSE ScanEmit(s, j + 1, e, sty \o params)

NoEmit == [fg |-> <<>>, bg |-> <<>>, style |-> <<>>]

\* emit after the bytes `s` have been appended to the buffer.
Track(e, s) == ScanEmit(s, 1, e, <<>>)

\* The bytes an operation that turned canvas c into d has appended.
Appended(c, d) == SubSeq(d.buf, Len(c.buf) + 1, Len(d.buf))

(***************************************************************************)
(* A terminal that receives what the canvas prints.  A printed character   *)
(* is shown in the cell under the cursor with the pen (foreground and      *)
(* background) of that moment and advances the cursor by one column; the   *)
(* relative motions move the cursor by their repeat count; a newline goes  *)
(* to the first column of the next row; the sequence 0m resets the pen to  *)
(* the defaults, 39m and 49m reset one colour, 38;5;n m and 48;5;n m set   *)
(* one.  The cursor is counted from the cell where the canvas was          *)
(* constructed.  shown lists what was printed, in the order printed.       *)
(***************************************************************************)
DefaultPen == [fg |-> <<"3", "9">>, bg |-> <<"4", "9">>]

FreshTerminal == [x |-> 0, y |-> 0, fg |-> DefaultPen.fg, bg |-> DefaultPen.bg,
                  shown |-> <<>>]

IsNumber(ds) ==
    /\ ds # <<>>
    /\ \A k \in 1..Len(ds) : \E n \in 0..9 : Digits[n + 1] = ds[k]

RECURSIVE Atoi(_)
Atoi(ds) ==
    IF ds = <<>> THEN 0
    ELSE 10 * Atoi(SubSeq(ds, 1, Len(ds) - 1))
         + (CHOOSE n \in 0..9 : Digits[n + 1] = ds[Len(ds)])

\* Whether a complete control sequence ESC [ ... final starts at s[i].
IsCsi(s, i) ==
    /\ i + 1 <= Len(s)
    /\ s[i + 1] = "["
    /\ \E j \in (i + 2)..Len(s) : s[j] \in CsiFinals

\* The terminal t after the control sequence with these parameters and this
\* final byte.
Control(t, params, final) ==
    LET n == IF IsNumber(params) THEN Atoi(params) ELSE 1 IN
    CASE final = "C" -> [t EXCEPT !.x = @ + n]
      [] final = "D" -> [t EXCEPT !.x = @ - n]
      [] final = "B" -> [t EXCEPT !.y = @ + n]
      [] final = "A" -> [t EXCEPT !.y = @ - n]
      [] OTHER ->
            IF params = <<"0">> THEN [t EXCEPT !.fg = DefaultPen.fg, !.bg = DefaultPen.bg]
            ELSE IF Len(params) >= 2 /\ params[1] = "3" THEN [t EXCEPT !.fg = params]
            ELSE IF Len(params) >= 2 /\ params[1] = "4" THEN [t EXCEPT !.bg = params]
            ELSE t

\* The terminal t after it has shown the character ch.
Show(t, ch) ==
    LET cell == [x |-> t.x, y |-> t.y, ch |-> ch, fg |-> t.fg, bg |-> t.bg] IN
    IF ch = <<"\n">>
    THEN [t EXCEPT !.shown = Append(@, cell), !.x = 0, !.y = @ + 1]
    ELSE [t EXCEPT !.shown = Append(@, cell), !.x = @ + 1]

\* The index of the last byte of the character or escape sequence that
\* starts at s[i]; an escape byte that starts no control sequence stands
\* alone, or selects a character set with the two bytes after it.
TokenEnd(s, i) ==
    IF s[i] # "ESC" THEN i + DecodeSize(s, i) - 1
    ELSE IF IsCsi(s, i) THEN CsiEnd(s, i)
    ELSE IF i + 2 <= Len(s) /\ s[i + 1] = "(" THEN i + 2
    ELSE i

\* The characters and escape sequences that make up the bytes s[i..].
RECURSIVE Tokens(_, _)
Tokens(s, i) ==
    IF i > Len(s) THEN <<>>
    ELSE <<SubSeq(s, i, TokenEnd(s, i))>> \o Tokens(s, TokenEnd(s, i) + 1)

\* The terminal t after one character or escape sequence.
Receive(t, tok) ==
    IF tok[1] # "ESC" THEN Show(t, tok)
    ELSE IF Len(tok) >= 3 /\ tok[2] = "["
    THEN Control(t, SubSeq(tok, 3, Len(tok) - 1), tok[Len(tok)])
    ELSE t

\* The terminal t after the tokens toks[a..b], one half after the other (the
\* test on t1 has TLC work out the first half before it starts the second,
\* which keeps the evaluation shallow).
RECURSIVE AfterTokens(_, _, _, _)
AfterTokens(toks, a, b, t) ==
    IF a > b THEN t
    ELSE IF a = b THEN Receive(t, toks[a])
    ELSE LET mid == (a + b) \div 2
             t1 == AfterTokens(toks, a, mid, t)
         IN IF Len(t1.shown) >= 0 THEN AfterTokens(toks, mid + 1, b, t1) ELSE t1

\* The terminal t after it has received the bytes s.
Replay(s, t) ==
    IF s = <<>> THEN t
    ELSE LET toks == Tokens(s, 1) IN
         IF toks = <<>> THEN t ELSE AfterTokens(toks, 1, Len(toks), t)

\* The terminal with cursor (x, y) and pen (fg, bg), nothing shown yet.
TerminalAt(x, y, fg, bg) ==
    [x |-> x, y |-> y, fg |-> fg, bg |-> bg, shown |-> <<>>]

\* The variable term: the cursor of the terminal, as long as it is on the
\* canvas (on), and no more than that it has left the canvas otherwise.
OffCanvas == [on |-> FALSE, x |-> 0, y |-> 0]

TermCursor(c, t) ==
    IF 0 <= t.x /\ t.x <= c.Width /\ 0 <= t.y /\ t.y < c.Height
    THEN [on |-> TRUE, x |-> t.x, y |-> t.y]
    ELSE OffCanvas

\* term after the terminal has received the bytes s printed by canvas c.
TermAfter(c, tm, s) ==
    IF ~tm.on THEN OffCanvas
    ELSE TermCursor(c, Replay(s, TerminalAt(tm.x, tm.y, DefaultPen.fg, DefaultPen.bg)))

(***************************************************************************)
(* The values the calls of the model take their arguments from.            *)
(***************************************************************************)
Colors == {ColorDefault, ColorBlack, ColorRed}

Styles == {StyleNoChange, StyleNormal, StyleBold + StyleDim}

Bullet == <<"E2", "80", "A2">>

Texts == {<<"a">>, <<"a", "b">>, <<"C3", "A9", "a", "b">>, <<"%">>, Bullet}

Runes == {Bullet}

\* What WriteAt is called with besides the target: foreground, background,
\* style and text.
Pens == {<<ColorRed, ColorDefault, StyleNormal, Bullet>>,
         <<ColorDefault, ColorBlack, StyleBold + StyleDim, <<"C3", "A9", "a", "b">>>>,
         <<ColorBlack, ColorRed, StyleNoChange, <<"%">>>>}

\* The targets of Move, Set and WriteAt: every cell, and points past each edge.
Targets(c) ==
    ((0..(c.Width - 1)) \X (0..(c.Height - 1)))
    \cup {<<-1, 0>>, <<c.Width, 0>>, <<0, -1>>, <<0, c.Height>>}

InBounds(c, x, y) == 0 <= x /\ x < c.Width /\ 0 <= y /\ y < c.Height

\* The canvases that are constructed: their dimensions and backgrounds.
Dims == {<<1, 1>>, <<MaxWidth, MaxHeight>>}

Backgrounds == {ColorDefault, ColorBlack}

NoCall == [op |-> "none", x |-> 0, y |-> 0, fg |-> ColorDefault,
           bg |-> ColorDefault, style |-> 0, text |-> <<>>]

Tasks == {"t1", "t2"}

\* A drawing task as it is started: at the head of its loop, no call of the
\* current frame left to make, no stop received, no completion sent, and no
\* foreground selected.
Waiting == [at |-> "run", script |-> <<>>, stops |-> 0, acks |-> 0,
            clr |-> ColorDefault]

\* main and the goroutine that traps the interrupt, as the tasks are started:
\* the goroutine waits on ctrlc, main receives on completed.
Orchestrating == [sig |-> "ctrlc", sent |-> 0, main |-> "collect", acks |-> 0]

(***************************************************************************)
(* The state after construction; the caller may then set CursorOnEnd.      *)
(* pre, call and ret are the frame of the caller's last call: the canvas   *)
(* as the call started, the operation with its arguments, and the error    *)
(* returned ("-" for an operation that returns nothing); written is what   *)
(* that call has printed on the terminal, and cv.Logger what it has handed *)
(* to the diagnostic sink.                                                 *)
(***************************************************************************)
Constructed(w, h, b, coe) ==
    LET n == NewCanvas(w, h, b) IN
    /\ cv = [n.c EXCEPT !.CursorOnEnd = coe]
    /\ pre = ZeroCanvas(w, h, b)
    /\ call = [NoCall EXCEPT !.op = "NewCanvas", !.bg = b]
    /\ ret = "-"
    /\ written = n.out
    /\ emit = Track(NoEmit, NewCanvasFilled(w, h, b).buf)
    /\ mutex = "free"
    /\ pc = [t \in Tasks |-> "idle"]
    /\ req = [t \in Tasks |-> NoCall]
    /\ actor = "main"
    /\ term = TermAfter(n.c, [on |-> TRUE, x |-> 0, y |-> 0], n.out)
    /\ prog = [t \in Tasks |-> Waiting]
    /\ orch = Orchestrating

Init ==
    \E d \in Dims, b \in Backgrounds, coe \in BOOLEAN :
        Constructed(d[1], d[2], b, coe)

Entry == [cv EXCEPT !.Logger = <<>>]

\* One unguarded call by a single caller: c is the canvas as the call starts
\* (its diagnostics emptied), d the canvas as it returns.
Called(c, d, theCall, err) ==
    /\ call.op = "none"
    /\ Len(cv.buf) <= MaxBuf
    /\ cv' = d
    /\ pre' = c
    /\ call' = theCall
    /\ ret' = err
    /\ emit' = Track(emit, Appended(c, d))
    /\ UNCHANGED <<written, mutex, pc, req, actor>>
    /\ UNCHANGED others

DoMove ==
    \E p \in Targets(cv) :
        LET m == Move(Entry, p[1], p[2]) IN
        Called(Entry, m.c, [NoCall EXCEPT !.op = "Move", !.x = p[1], !.y = p[2]],
               m.err)

DoWrite ==
    \E text \in Texts :
        Called(Entry, Write(Entry, text),
               [NoCall EXCEPT !.op = "Write", !.text = text], "-")

DoSet ==
    \E p \in Targets(cv), char \in Runes :
        Called(Entry, Set(Entry, p[1], p[2], char),
               [NoCall EXCEPT !.op = "Set", !.x = p[1], !.y = p[2], !.text = char],
               "-")

DoWriteAt ==
    \E p \in Targets(cv), pen \in Pens :
        Called(Entry, WriteAt(Entry, p[1], p[2], pen[1], pen[2], pen[3], pen[4]),
               [op |-> "WriteAt", x |-> p[1], y |-> p[2], fg |-> pen[1],
                bg |-> pen[2], style |-> pen[3], text |-> pen[4]], "-")

DoSetForeground ==
    \E clr \in Colors :
        Called(Entry, SetForeground(Entry, clr),
               [NoCall EXCEPT !.op = "SetForeground", !.fg = clr], "-")

DoSetBackground ==
    \E clr \in Colors :
        Called(Entry, SetBackground(Entry, clr),
               [NoCall EXCEPT !.op = "SetBackground", !.bg = clr], "-")

DoSetStyle ==
    \E style \in Styles :
        Called(Entry, SetStyle(Entry, style),
               [NoCall EXCEPT !.op = "SetStyle", !.style = style], "-")

DoClear ==
    Called(Entry, Clear(Entry), [NoCall EXCEPT !.op = "Clear"], "-")

DoFlush ==
    LET f == Flush(Entry) IN
    /\ call.op = "none"
    /\ cv' = f.c
    /\ pre' = Entry
    /\ call' = [NoCall EXCEPT !.op = "Flush"]
    /\ ret' = "-"
    /\ written' = f.out
    /\ emit' = Track(emit, SubSeq(f.buf, Len(Entry.buf) + 1, Len(f.buf)))
    /\ UNCHANGED <<mutex, pc, req, actor>>
    /\ UNCHANGED others

\* The call has returned and its frame is gone.
Return ==
    /\ call.op # "none"
    /\ call' = NoCall
    /\ cv' = Entry
    /\ pre' = Entry
    /\ ret' = "-"
    /\ written' = <<>>
    /\ UNCHANGED <<emit, mutex, pc, req, actor>>
    /\ UNCHANGED others

Next ==
    \/ DoMove
    \/ DoWrite
    \/ DoSet
    \/ DoWriteAt
    \/ DoSetForeground
    \/ DoSetBackground
    \/ DoSetStyle
    \/ DoClear
    \/ DoFlush
    \/ Return

Spec == Init /\ [][Next]_vars

(***************************************************************************)
(* Drawing tasks that share the canvas and call only the guarded variants. *)
(* A guarded call locks the mutex, runs the unguarded operation and        *)
(* unlocks; the calls that operation makes (Move, SetStyle, SetForeground, *)
(* SetBackground, Write, Flush) are one step each, so that another task    *)
(* can run between any two of them.  pc[t] is "idle" or the step task t    *)
(* takes next, req[t] its guarded call, actor the task of the last step.   *)
(* While a guarded call runs, pre is the canvas as it started and written  *)
(* what it has printed.                                                    *)
(***************************************************************************)
SafeTargets(c) == {<<0, 0>>, <<c.Width - 1, c.Height - 1>>, <<c.Width, 0>>}

SafeCalls(c) ==
    {[op |-> "WriteAtSafe", x |-> p[1], y |-> p[2], fg |-> pen[1], bg |-> pen[2],
      style |-> pen[3], text |-> pen[4]] : p \in SafeTargets(c), pen \in Pens}
    \cup {[NoCall EXCEPT !.op = "SetSafe", !.x = p[1], !.y = p[2], !.text = Bullet] :
            p \in SafeTargets(c)}
    \cup {[NoCall EXCEPT !.op = "SetForegroundSafe", !.fg = clr] : clr \in Colors}
    \cup {[NoCall EXCEPT !.op = "FlushSafe"]}

\* The first step of a guarded call.
FirstStep(op) ==
    CASE op = "WriteAtSafe" -> "Move"
      [] op = "SetSafe" -> "Move"
      [] op = "SetForegroundSafe" -> "SetForeground"
      [] op = "FlushSafe" -> "Flush"

\* sync.Mutex.Lock without the wait for the holder.
MutexLockNoWait(t) == mutex' = t

\* c.mutex.Lock(): returns once the mutex is free, and takes it.
MutexLock(t) == mutex = "free" /\ mutex' = t

\* c.mutex.Unlock()
MutexUnlock(t) == mutex' = "free"

\* Task t is between the Lock and the Unlock of a guarded call.
Inside(t) == pc[t] # "idle"

SafeAcquire(t) ==
    \E r \in SafeCalls(cv) :
        /\ pc[t] = "idle"
        /\ r.op = "FlushSafe" \/ Len(cv.buf) <= MaxBuf
        /\ MutexLock(t)
        /\ pc' = [pc EXCEPT ![t] = FirstStep(r.op)]
        /\ req' = [req EXCEPT ![t] = r]
        /\ cv' = Entry
        /\ pre' = Entry
        /\ call' = r
        /\ ret' = "-"
        /\ written' = <<>>
        /\ actor' = t
        /\ UNCHANGED emit
        /\ UNCHANGED others

\* A step of task t that turns the canvas into d and goes on with step next.
SafeStep(t, d, next) ==
    /\ \E after \in {d} :
          /\ cv' = after
          /\ emit' = Track(emit, Appended(cv, after))
    /\ pc' = [pc EXCEPT ![t] = next]
    /\ actor' = t
    /\ UNCHANGED <<pre, call, ret, written, mutex, req>>
    /\ UNCHANGED others

StepMove(t) ==
    /\ pc[t] = "Move"
    /\ \E m \in {Move(cv, req[t].x, req[t].y)} :
       SafeStep(t, m.c,
                IF m.err # "nil" THEN "Unlock"
                ELSE IF req[t].op = "SetSafe" THEN "Write" ELSE "SetStyle")

StepSetStyle(t) ==
    /\ pc[t] = "SetStyle"
    /\ SafeStep(t, SetStyle(cv, req[t].style), "SetForeground")

StepSetForeground(t) ==
    /\ pc[t] = "SetForeground"
    /\ SafeStep(t, SetForeground(cv, req[t].fg),
                IF req[t].op = "SetForegroundSafe" THEN "Unlock" ELSE "SetBackground")

StepSetBackground(t) ==
    /\ pc[t] = "SetBackground"
    /\ SafeStep(t, SetBackground(cv, req[t].bg), "Write")

StepWrite(t) ==
    /\ pc[t] = "Write"
    /\ SafeStep(t, Write(cv, req[t].text), "Unlock")

StepFlush(t) ==
    /\ pc[t] = "Flush"
    /\ \E f \in {Flush(cv)} :
       /\ cv' = f.c
       /\ written' = written \o f.out
       /\ emit' = Track(emit, SubSeq(f.buf, Len(cv.buf) + 1, Len(f.buf)))
       /\ pc' = [pc EXCEPT ![t] = "Unlock"]
       /\ actor' = t
       /\ UNCHANGED <<pre, call, ret, mutex, req>>
       /\ UNCHANGED others

SafeRelease(t) ==
    /\ pc[t] = "Unlock"
    /\ MutexUnlock(t)
    /\ pc' = [pc EXCEPT ![t] = "idle"]
    /\ req' = [req EXCEPT ![t] = NoCall]
    /\ cv' = Entry
    /\ pre' = Entry
    /\ call' = NoCall
    /\ ret' = "-"
    /\ written' = <<>>
    /\ actor' = t
    /\ UNCHANGED emit
    /\ UNCHANGED others

NextSafe ==
    \E t \in Tasks :
        \/ SafeAcquire(t)
        \/ StepMove(t)
        \/ StepSetStyle(t)
        \/ StepSetForeground(t)
        \/ StepSetBackground(t)
        \/ StepWrite(t)
        \/ StepFlush(t)
        \/ SafeRelease(t)

SpecSafe == Init /\ [][NextSafe]_vars

(***************************************************************************)
(* Properties of the unguarded operations, stated on the frame of the last *)
(* call: pre is the canvas as it started, cv the canvas as it returned.    *)
(***************************************************************************)
Abs(n) == IF n < 0 THEN -n ELSE n

Min(a, b) == IF a < b THEN a ELSE b

\* The relative motion by n cells with opcode op; nothing for n = 0.
Motion(n, op) == IF n = 0 THEN <<>> ELSE <<"ESC", "[">> \o Itoa(n) \o <<op>>

\* C1: Move to a target outside the canvas returns ErrorOutOfBounds and
\* leaves the cached cursor and the pending buffer as they were.
C1_MoveOutOfBounds ==
    (call.op = "Move" /\ ~InBounds(pre, call.x, call.y))
        => /\ ret = "ErrorOutOfBounds"
           /\ cv.x = pre.x /\ cv.y = pre.y
           /\ cv.buf = pre.buf

C1_Witness ==
    /\ call.op = "Move" /\ call.x = pre.Width /\ call.y = 0
    /\ pre.buf # <<>>
    /\ ret = "ErrorOutOfBounds"

\* C2: Move to a cell of the canvas appends the horizontal motion (|dx| with
\* C to the right, D to the left, nothing for dx = 0) and then the vertical
\* one (|dy| with B downwards, A upwards, nothing for dy = 0), and nothing
\* else; afterwards the cached cursor is the target.
C2_MoveFragments ==
    (call.op = "Move" /\ InBounds(pre, call.x, call.y))
        => /\ Appended(pre, cv)
                = Motion(Abs(call.x - pre.x), IF call.x > pre.x THEN "C" ELSE "D")
                  \o Motion(Abs(call.y - pre.y), IF call.y > pre.y THEN "B" ELSE "A")
           /\ SubSeq(cv.buf, 1, Len(pre.buf)) = pre.buf
           /\ cv.x = call.x /\ cv.y = call.y
           /\ ret = "nil"

C2_Witness ==
    /\ call.op = "Move" /\ InBounds(pre, call.x, call.y)
    /\ pre.x - call.x = 2 /\ pre.y - call.y = 1
    /\ Appended(pre, cv) = <<"ESC", "[", "2", "D", "ESC", "[", "1", "A">>

RECURSIVE FirstRunesFrom(_, _, _)
FirstRunesFrom(s, i, n) ==
    IF n = 0 \/ i > Len(s) THEN <<>>
    ELSE SubSeq(s, i, i + DecodeSize(s, i) - 1)
         \o FirstRunesFrom(s, i + DecodeSize(s, i), n - 1)

\* The first n characters of s.
FirstRunes(s, n) == FirstRunesFrom(s, 1, n)

\* What a call has appended before its first escape sequence.
RECURSIVE TextBefore(_, _)
TextBefore(s, i) ==
    IF i > Len(s) \/ s[i] = "ESC" THEN <<>> ELSE <<s[i]>> \o TextBefore(s, i + 1)

\* C4: Write of a text longer than the remaining columns r appends the first
\* r whole characters of the text (then at most the motion back to the last
\* column) and reports the truncation to the diagnostic sink only.
C4_WriteTruncatesWholeChars ==
    (call.op = "Write" /\ RuneCountInString(call.text) > pre.Width - pre.x)
        => /\ TextBefore(Appended(pre, cv), 1)
                = FirstRunes(call.text, pre.Width - pre.x)
           /\ cv.Logger = <<"string truncated">>
           /\ ret = "-"

\* C5: Write leaves the cursor in its row, at column min(x0 + n, Width - 1)
\* for n the characters written.
C5_WriteCursor ==
    call.op = "Write"
        => /\ cv.x = Min(pre.x + RuneCountInString(TextBefore(Appended(pre, cv), 1)),
                         pre.Width - 1)
           /\ cv.y = pre.y

C5_Witness ==
    /\ call.op = "Write"
    /\ call.text = Bullet
    /\ pre.x = pre.Width - 1 /\ pre.Width = MaxWidth
    /\ cv.x = pre.Width - 1

\* C6: SetForeground, SetBackground and SetStyle called with the value that
\* is cached append nothing and change nothing.
C6_SameValueNoOp ==
    (\/ call.op = "SetForeground" /\ call.fg = pre.fg
     \/ call.op = "SetBackground" /\ call.bg = pre.bg
     \/ call.op = "SetStyle" /\ call.style = pre.style)
        => cv = pre

C6_Witness ==
    /\ call.op = "SetStyle" /\ call.style = StyleBold + StyleDim
    /\ pre.style = StyleBold + StyleDim
    /\ cv = pre

\* The parameters of the sequence that sets colour clr on a channel.
ColorParams(clr, channel) ==
    IF clr.isDefault THEN <<channel, "9">>
    ELSE <<channel, "8", ";", "5", ";">> \o Itoa(clr.Term256)

\* The parameters of the sequences that set a style, in the order emitted.
StyleParams(style) ==
    (IF HasBit(style, StyleNormal) THEN <<"0">> ELSE <<>>)
    \o (IF HasBit(style, StyleBold) THEN <<"1">> ELSE <<>>)
    \o (IF HasBit(style, StyleDim) THEN <<"2">> ELSE <<>>)
    \o (IF HasBit(style, StyleUnderlined) THEN <<"4">> ELSE <<>>)
    \o (IF HasBit(style, StyleBlink) THEN <<"5">> ELSE <<>>)
    \o (IF HasBit(style, StyleInverted) THEN <<"7">> ELSE <<>>)
    \o (IF HasBit(style, StyleHidden) THEN <<"8">> ELSE <<>>)

\* C7: the cached foreground, background and style are the values of the
\* last sequence emitted on their channel; no cache holds a value that has
\* never been emitted.
C7_CacheIsLastEmitted ==
    /\ emit.fg = ColorParams(cv.fg, "3")
    /\ emit.bg = ColorParams(cv.bg, "4")
    /\ emit.style = StyleParams(cv.style)

\* C8: Set and WriteAt with a target outside the canvas change neither the
\* cursor, the cached colours and style nor the buffer, and return no error.
C8_OutOfBoundsNoEffect ==
    (call.op \in {"Set", "WriteAt"} /\ ~InBounds(pre, call.x, call.y))
        => /\ cv.x = pre.x /\ cv.y = pre.y
           /\ cv.fg = pre.fg /\ cv.bg = pre.bg /\ cv.style = pre.style
           /\ cv.buf = pre.buf
           /\ ret = "-"

C8_Witness ==
    /\ call.op = "WriteAt" /\ call.x = 0 /\ call.y = pre.Height
    /\ call.fg # pre.fg /\ call.bg # pre.bg /\ call.style # pre.style
    /\ pre.buf # <<>>
    /\ cv.buf = pre.buf

(***************************************************************************)
(* Properties of the guarded operations, under SpecSafe.                   *)
(***************************************************************************)
\* C9: while a task is inside a guarded call, every change of the canvas is
\* a step of that task, and at most one task is inside a guarded call.
C9_GuardedCallsAtomic ==
    [][/\ \A t \in Tasks : (Inside(t) /\ cv' # cv) => actor' = t
       /\ Cardinality({t \in Tasks : Inside(t)'}) <= 1]_vars

\* A WriteAtSafe is about to write its text after a motion and changes of
\* style and colours, all of them its own, while the other task waits.
C9_Witness ==
    /\ pc["t1"] = "Write" /\ pc["t2"] = "idle"
    /\ req["t1"].op = "WriteAtSafe"
    /\ cv.x # pre.x /\ cv.style # pre.style /\ cv.fg # pre.fg /\ cv.bg # pre.bg
    /\ actor = "t1"

\* C10: the Flush of a FlushSafe moves the cursor to the last cell when
\* CursorOnEnd is set, prints the whole pending buffer, byte for byte, in
\* one write and leaves the buffer empty.
C10_FlushDeliversBuffer ==
    \A t \in Tasks :
        (pc[t] = "Unlock" /\ req[t].op = "FlushSafe")
            => /\ cv.buf = <<>>
               /\ written
                    = pre.buf
                      \o (IF pre.CursorOnEnd
                          THEN Motion(pre.Width - 1 - pre.x, "C")
                               \o Motion(pre.Height - 1 - pre.y, "B")
                          ELSE <<>>)

(***************************************************************************)
(* The fragments of WriteAt and Clear.                                     *)
(***************************************************************************)
\* The sequence that sets one graphic parameter.
Sgr(params) == <<"ESC", "[">> \o params \o <<"m">>

RECURSIVE SgrEach(_)
SgrEach(params) ==
    IF params = <<>> THEN <<>> ELSE Sgr(<<Head(params)>>) \o SgrEach(Tail(params))

\* The text a Write at column x of canvas c appends, and the motion back to
\* the last column that follows it when the row has been filled.
TextAt(c, x, text) ==
    LET r == c.Width - x
        t == IF RuneCountInString(text) > r THEN SubSeq(text, 1, r) ELSE text
        n == x + RuneCountInString(t)
    IN t \o (IF n >= c.Width THEN Motion(n - (c.Width - 1), "D") ELSE <<>>)

\* C13 (as amended): a WriteAt to a cell of the canvas appends, in this
\* order, the motion to the target, the style sequences, the foreground
\* sequence, the background sequence and the text.  The motion is left out
\* when the target is the cached cursor, a colour sequence when the colour is
\* the cached one, and the style sequences when the style is the cached one
\* or has none of the bits Normal to Hidden set (StyleNoChange).
C13_WriteAtFragments ==
    (call.op = "WriteAt" /\ InBounds(pre, call.x, call.y))
        => Appended(pre, cv)
             = Motion(Abs(call.x - pre.x), IF call.x > pre.x THEN "C" ELSE "D")
               \o Motion(Abs(call.y - pre.y), IF call.y > pre.y THEN "B" ELSE "A")
               \o (IF call.style = pre.style THEN <<>>
                   ELSE SgrEach(StyleParams(call.style)))
               \o (IF call.fg = pre.fg THEN <<>> ELSE Sgr(ColorParams(call.fg, "3")))
               \o (IF call.bg = pre.bg THEN <<>> ELSE Sgr(ColorParams(call.bg, "4")))
               \o TextAt(pre, call.x, call.text)

C13_Witness ==
    /\ call.op = "WriteAt" /\ InBounds(pre, call.x, call.y)
    /\ call.x # pre.x /\ call.y # pre.y
    /\ call.style = StyleBold + StyleDim /\ pre.style # call.style
    /\ call.fg # pre.fg /\ call.bg # pre.bg
    /\ pre.buf # <<>>

\* C13 (as stated): the fragments come in that order, and the style, the
\* foreground and the background fragment are each left out exactly when
\* the requested value is the cached one.
C13_OmittedExactlyWhenCached ==
    (call.op = "WriteAt" /\ InBounds(pre, call.x, call.y))
        => LET e == Track(NoEmit, Appended(pre, cv)) IN
           /\ C13_WriteAtFragments
           /\ (e.style = <<>>) <=> (call.style = pre.style)
           /\ (e.fg = <<>>) <=> (call.fg = pre.fg)
           /\ (e.bg = <<>>) <=> (call.bg = pre.bg)

\* C15: Clear prints one blank into every cell of the canvas, row by row
\* from the first cell, truncates and drops none of its writes, leaves the
\* cached colours and style as they were and the cursor on the first cell.
C15_ClearBlanksEveryCell ==
    call.op = "Clear"
        => LET t == Replay(Appended(pre, cv),
                           TerminalAt(pre.x, pre.y, DefaultPen.fg, DefaultPen.bg))
           IN
           /\ Len(t.shown) = pre.Width * pre.Height
           /\ \A k \in 1..Len(t.shown) :
                 /\ t.shown[k].ch = <<" ">>
                 /\ t.shown[k].x = (k - 1) % pre.Width
                 /\ t.shown[k].y = (k - 1) \div pre.Width
           /\ cv.Logger = <<>>
           /\ cv.fg = pre.fg /\ cv.bg = pre.bg /\ cv.style = pre.style
           /\ cv.x = 0 /\ cv.y = 0
           /\ t.x = 0 /\ t.y = 0

C15_Witness ==
    /\ call.op = "Clear"
    /\ pre.Width = MaxWidth /\ pre.Height = MaxHeight
    /\ pre.x = pre.Width - 1 /\ pre.y = pre.Height - 1
    /\ cv.x = 0 /\ cv.y = 0

\* C18: on a terminal whose pen agreed with the cached colours when the call
\* started, every character a Write or a WriteAt prints is shown in the
\* foreground and on the background that are cached when it is written; for
\* a WriteAt these are the colours it was called with.
C18_TextInCachedColours ==
    (call.op \in {"Write", "WriteAt"} /\ InBounds(pre, call.x, call.y))
        => LET t == Replay(Appended(pre, cv),
                           TerminalAt(pre.x, pre.y, ColorParams(pre.fg, "3"),
                                      ColorParams(pre.bg, "4")))
           IN \A k \in 1..Len(t.shown) :
                 /\ t.shown[k].fg = ColorParams(cv.fg, "3")
                 /\ t.shown[k].bg = ColorParams(cv.bg, "4")

(***************************************************************************)
(* Construction: canvases of every size up to the bounds and of the size   *)
(* 10 x 5, on every background, and the Set calls that follow.             *)
(***************************************************************************)
NewDims == ((1..MaxWidth) \X (1..MaxHeight)) \cup {<<10, 5>>}

\* The canvas of 10 x 5 is constructed on the default background.
InitNew ==
    \E d \in NewDims, b \in Colors :
        /\ d = <<10, 5>> => b = ColorDefault
        /\ Constructed(d[1], d[2], b, FALSE)

NewSet ==
    \E p \in Targets(cv), char \in {<<"X">>, Bullet} :
        Called(Entry, Set(Entry, p[1], p[2], char),
               [NoCall EXCEPT !.op = "Set", !.x = p[1], !.y = p[2], !.text = char],
               "-")

NextNew ==
    \/ NewSet
    \/ DoFlush
    \/ Return

SpecNew == InitNew /\ [][NextNew]_vars

\* C14: NewCanvas returns with the cached cursor on (0, 0) and the buffer
\* empty, having printed Width blanks for each of the Height rows, a newline
\* between two rows, and last a motion to the first cell that is not empty
\* (Width columns back, Height - 1 rows up).  Set(3, 2, 'X') on a 10 x 5
\* canvas whose cursor is on (0, 0) appends the motion 3 right and 2 down
\* and the X, nothing else, and leaves the cursor on (4, 2).
C14_NewCanvasThenSet ==
    /\ call.op = "NewCanvas"
         => LET t == Replay(written, FreshTerminal)
                back == Motion(cv.Width, "D") \o Motion(cv.Height - 1, "A")
            IN
            /\ cv.x = 0 /\ cv.y = 0 /\ cv.buf = <<>>
            /\ Len(t.shown) = cv.Width * cv.Height + cv.Height - 1
            /\ \A k \in 1..Len(t.shown) :
                  LET j == (k - 1) % (cv.Width + 1) IN
                  IF j = cv.Width THEN t.shown[k].ch = <<"\n">>
                  ELSE /\ t.shown[k].ch = <<" ">>
                       /\ t.shown[k].x = j
                       /\ t.shown[k].y = (k - 1) \div (cv.Width + 1)
            /\ back # <<>>
            /\ Len(written) >= Len(back)
            /\ SubSeq(written, Len(written) - Len(back) + 1, Len(written)) = back
            /\ t.x = 0 /\ t.y = 0
    /\ (/\ call.op = "Set" /\ call.x = 3 /\ call.y = 2 /\ call.text = <<"X">>
        /\ pre.Width = 10 /\ pre.Height = 5 /\ pre.x = 0 /\ pre.y = 0)
         => /\ Appended(pre, cv) = <<"ESC", "[", "3", "C", "ESC", "[", "2", "B", "X">>
            /\ cv.x = 4 /\ cv.y = 2

C14_Witness ==
    /\ call.op = "Set" /\ call.x = 3 /\ call.y = 2 /\ call.text = <<"X">>
    /\ pre.Width = 10 /\ pre.Height = 5 /\ pre.x = 0 /\ pre.y = 0
    /\ pre.Background = ColorDefault /\ pre.buf = <<>>
    /\ cv.x = 4 /\ cv.y = 2

\* C19: NewCanvas prints every blank of the fill, in every row, on the
\* background it was called with, and the newline between two rows on the
\* default background.
C19_FillOnBackground ==
    call.op = "NewCanvas"
        => LET t == Replay(written, FreshTerminal) IN
           \A k \in 1..Len(t.shown) :
               t.shown[k].bg = IF t.shown[k].ch = <<"\n">> THEN DefaultPen.bg
                               ELSE ColorParams(call.bg, "4")

(***************************************************************************)
(* SetStyle with every combination of the style bits, on one canvas.       *)
(***************************************************************************)
AllStyles == 0..(2 * StyleHidden - 1)

InitStyle == Constructed(1, 1, ColorDefault, FALSE)

SetAnyStyle ==
    \E style \in AllStyles :
        Called(Entry, SetStyle(Entry, style),
               [NoCall EXCEPT !.op = "SetStyle", !.style = style], "-")

NextStyle ==
    \/ SetAnyStyle
    \/ DoFlush
    \/ Return

SpecStyle == InitStyle /\ [][NextStyle]_vars

\* C16: SetStyle with a style that is not the cached one appends the reset
\* sequence first if and only if the Normal bit is set, then one sequence
\* for each bit set among Bold, Dim, Underlined, Blink, Inverted and Hidden,
\* in this order, whatever the combination, and nothing else; it reports
\* nothing and sets the cached style to the bitmask.
C16_StyleFragments ==
    (call.op = "SetStyle" /\ call.style # pre.style)
        => /\ Appended(pre, cv)
                = (IF HasBit(call.style, StyleNormal) THEN Sgr(<<"0">>) ELSE <<>>)
                  \o (IF HasBit(call.style, StyleBold) THEN Sgr(<<"1">>) ELSE <<>>)
                  \o (IF HasBit(call.style, StyleDim) THEN Sgr(<<"2">>) ELSE <<>>)
                  \o (IF HasBit(call.style, StyleUnderlined) THEN Sgr(<<"4">>) ELSE <<>>)
                  \o (IF HasBit(call.style, StyleBlink) THEN Sgr(<<"5">>) ELSE <<>>)
                  \o (IF HasBit(call.style, StyleInverted) THEN Sgr(<<"7">>) ELSE <<>>)
                  \o (IF HasBit(call.style, StyleHidden) THEN Sgr(<<"8">>) ELSE <<>>)
           /\ cv = [pre EXCEPT !.buf = cv.buf, !.style = call.style]
           /\ ret = "-"

C16_Witness ==
    /\ call.op = "SetStyle"
    /\ call.style = StyleNormal + StyleBold + StyleDim + StyleHidden
    /\ pre.style = StyleUnderlined + StyleBlink
    /\ Appended(pre, cv) = Sgr(<<"0">>) \o Sgr(<<"1">>) \o Sgr(<<"2">>) \o Sgr(<<"8">>)

(***************************************************************************)
(* The unguarded operations with a terminal that receives every Flush.     *)
(***************************************************************************)
TermFlush ==
    LET f == Flush(Entry) IN
    /\ call.op = "none"
    /\ cv' = f.c
    /\ pre' = Entry
    /\ call' = [NoCall EXCEPT !.op = "Flush"]
    /\ ret' = "-"
    /\ written' = f.out
    /\ emit' = Track(emit, SubSeq(f.buf, Len(Entry.buf) + 1, Len(f.buf)))
    /\ term' = TermAfter(cv, term, f.out)
    /\ UNCHANGED <<mutex, pc, req, actor, prog, orch>>

NextTerm ==
    \/ DoMove
    \/ DoWrite
    \/ DoSet
    \/ DoWriteAt
    \/ DoClear
    \/ TermFlush
    \/ Return

SpecTerm == Init /\ [][NextTerm]_vars

\* C17: after NewCanvas and after every Flush, the cursor of the terminal
\* that has received everything printed so far, counted from the first cell
\* of the canvas, is the cached cursor.
C17_CursorFaithful ==
    call.op \in {"NewCanvas", "Flush"}
        => term = [on |-> TRUE, x |-> cv.x, y |-> cv.y]

(***************************************************************************)
(* The programs that draw with several tasks.  main constructs the canvas, *)
(* starts the tasks and a goroutine that waits for the interrupt, and      *)
(* receives one completion per task before it cleans up with unguarded     *)
(* calls.  stop and completed are unbuffered channels: a send and its      *)
(* receive are one step.  A task looks at stop once per frame, at the head *)
(* of its loop; prog[t].script holds the guarded calls of its frame that   *)
(* are still to be made, prog[t].clr the foreground it has last selected.  *)
(* orch.sig is "ctrlc" while the goroutine waits for the interrupt, "stop" *)
(* while it stands in a send on stop, "end" when it has returned;          *)
(* orch.main is "collect" while main receives on completed, then the       *)
(* cleanup call it makes next, then "exit".                                *)
(***************************************************************************)
\* The goroutine sending one stop less than there are tasks.
StopsToSendOneLess == Cardinality(Tasks) - 1

\* for i := 0; i < drops; i++ { stop <- true }
StopsToSend == Cardinality(Tasks)

\* main receiving one completion less than there are tasks.
CompletionsAwaitedOneLess == Cardinality(Tasks) - 1

\* for i := 0; i < drops; i++ { <-completed }
CompletionsAwaited == Cardinality(Tasks)

canvasVars == <<cv, pre, call, ret, written, emit, mutex, pc, req, term>>

\* os.Interrupt arrives: the goroutine leaves <-ctrlc and enters its loop.
Interrupt ==
    /\ orch.sig = "ctrlc"
    /\ orch' = [orch EXCEPT !.sig = IF StopsToSend > 0 THEN "stop" ELSE "end"]
    /\ UNCHANGED <<canvasVars, actor, prog>>

\* Task t is at the select of its loop.
AtLoopHead(t) == prog[t].at = "run" /\ prog[t].script = <<>> /\ pc[t] = "idle"

\* case <-stop: the select takes the stop that the goroutine offers.
ReceiveStop(t) ==
    /\ AtLoopHead(t)
    /\ orch.sig = "stop"
    /\ prog' = [prog EXCEPT ![t].at = "ack", ![t].stops = @ + 1]
    /\ orch' = [orch EXCEPT !.sent = @ + 1,
                            !.sig = IF orch.sent + 1 >= StopsToSend
                                    THEN "end" ELSE "stop"]
    /\ actor' = t
    /\ UNCHANGED canvasVars

\* completed <- true, received by main in its loop; the task returns.
SendCompleted(t) ==
    /\ prog[t].at = "ack"
    /\ orch.main = "collect"
    /\ prog' = [prog EXCEPT ![t].at = "done", ![t].acks = @ + 1]
    /\ orch' = [orch EXCEPT !.acks = @ + 1,
                            !.main = IF orch.acks + 1 >= CompletionsAwaited
                                     THEN "SetBackground" ELSE "collect"]
    /\ actor' = t
    /\ UNCHANGED canvasVars

\* The next guarded call of the frame of task t: its Lock.
TaskCall(t) ==
    /\ prog[t].at = "run"
    /\ prog[t].script # <<>>
    /\ pc[t] = "idle"
    /\ LET r == Head(prog[t].script) IN
       /\ MutexLock(t)
       /\ pc' = [pc EXCEPT ![t] = FirstStep(r.op)]
       /\ req' = [req EXCEPT ![t] = r]
       /\ call' = r
       /\ prog' = [prog EXCEPT ![t].script = Tail(@),
                               ![t].clr = IF r.op = "SetForegroundSafe"
                                          THEN r.fg ELSE @]
    /\ cv' = Entry
    /\ pre' = Entry
    /\ ret' = "-"
    /\ written' = <<>>
    /\ actor' = t
    /\ UNCHANGED <<emit, term, orch>>

\* One unguarded call of the cleanup of main, which turns the canvas into d,
\* appends the bytes app to the buffer and prints out.
CleanupCall(d, app, out, next) ==
    /\ cv' = d
    /\ emit' = Track(emit, app)
    /\ written' = out
    /\ orch' = [orch EXCEPT !.main = next]
    /\ actor' = "main"
    /\ UNCHANGED <<pre, call, ret, mutex, pc, req, term, prog>>

CleanupSetBackground ==
    /\ orch.main = "SetBackground"
    /\ \E d \in {SetBackground(cv, ColorDefault)} :
          CleanupCall(d, Appended(cv, d), written, "Clear")

CleanupClear ==
    /\ orch.main = "Clear"
    /\ \E d \in {Clear(cv)} : CleanupCall(d, Appended(cv, d), written, "Move")

CleanupMove ==
    /\ orch.main = "Move"
    /\ \E d \in {Move(cv, 0, 0).c} :
          CleanupCall(d, Appended(cv, d), written, "Flush")

CleanupFlush ==
    /\ orch.main = "Flush"
    /\ \E f \in {Flush(cv)} :
          CleanupCall(f.c, SubSeq(f.buf, Len(cv.buf) + 1, Len(f.buf)), f.out, "exit")

(***************************************************************************)
(* The sine waves: two tasks, each drawing its wave in its colour and then *)
(* erasing it in the background colour.                                    *)
(***************************************************************************)
WaveClr(t) == IF t = "t1" THEN ColorYellow ELSE ColorRed

\* render(clr): the guarded calls for the columns x.., then the FlushSafe.
RECURSIVE Render(_, _, _, _)
Render(clr, waveY, x, width) ==
    IF x >= width THEN <<[NoCall EXCEPT !.op = "FlushSafe"]>>
    ELSE <<[NoCall EXCEPT !.op = "SetForegroundSafe", !.fg = clr],
           [NoCall EXCEPT !.op = "SetSafe", !.x = x, !.y = waveY[x], !.text = Bullet]>>
         \o Render(clr, waveY, x + 1, width)

\* default: the wave of this frame is computed; it is rendered and erased.
SineFrame(t) ==
    /\ AtLoopHead(t)
    /\ orch.sig # "stop"
    /\ \E waveY \in [0..(cv.Width - 1) -> 0..(cv.Height - 1)] :
          prog' = [prog EXCEPT ![t].script =
                       Render(WaveClr(t), waveY, 0, cv.Width)
                       \o Render(cv.Background, waveY, 0, cv.Width)]
    /\ actor' = t
    /\ UNCHANGED <<canvasVars, orch>>

\* The canvas of the sine waves has WaveWidth columns and one row.  The
\* prompt that main writes before it starts the tasks is left out.
InitSine == Constructed(WaveWidth, 1, ColorBlack, FALSE)

NextSine ==
    \/ Interrupt
    \/ \E t \in Tasks :
           \/ ReceiveStop(t)
           \/ SineFrame(t)
           \/ TaskCall(t)
           \/ StepMove(t)
           \/ StepSetForeground(t)
           \/ StepWrite(t)
           \/ StepFlush(t)
           \/ SafeRelease(t)
           \/ SendCompleted(t)
    \/ CleanupSetBackground
    \/ CleanupClear
    \/ CleanupMove
    \/ CleanupFlush

SpecSine == InitSine /\ [][NextSine]_vars

\* C20: whenever a task of the sine waves is about to write a point of its
\* wave, the cached foreground, under which the point is emitted, is the
\* colour that this task has selected with its last SetForegroundSafe.
C20_PointInOwnColour ==
    \A t \in Tasks :
        (pc[t] = "Write" /\ req[t].op = "SetSafe") => cv.fg = prog[t].clr

\* The scheduling the handshake relies on: a task that can take a step of
\* its own takes one, main goes on with its cleanup, and a task that asks
\* for the mutex again and again gets it (a waiter of sync.Mutex is handed
\* the mutex once it has waited long enough).  The interrupt may never come.
FairSine ==
    /\ \A t \in Tasks :
          /\ WF_vars(\/ ReceiveStop(t)
                     \/ SineFrame(t)
                     \/ StepMove(t)
                     \/ StepSetForeground(t)
                     \/ StepWrite(t)
                     \/ StepFlush(t)
                     \/ SafeRelease(t)
                     \/ SendCompleted(t))
          /\ SF_vars(TaskCall(t))
    /\ WF_vars(CleanupSetBackground \/ CleanupClear \/ CleanupMove \/ CleanupFlush)

SpecSineFair == InitSine /\ [][NextSine]_vars /\ FairSine

AllDone == \A t \in Tasks : prog[t].at = "done"

\* C12: once the goroutine has received the interrupt and stands in its
\* first send on stop, every task eventually takes a stop at the head of
\* its loop, sends its completion and returns, and main eventually receives
\* all completions, cleans up and exits; no state on the way is stuck.
C12_StopTerminates == (orch.sig = "stop") ~> (AllDone /\ orch.main = "exit")

C12_Witness ==
    /\ AllDone /\ orch.main = "exit" /\ orch.sig = "end"
    /\ cv.x = 0 /\ cv.y = 0 /\ cv.buf = <<>> /\ written # <<>>
    /\ cv.fg = ColorBlack /\ emit.fg = ColorParams(ColorBlack, "3")

(***************************************************************************)
(* The rain: every task draws drop after drop; a drop falls down a column  *)
(* chosen at random, in a colour chosen at random, and splashes.           *)
(***************************************************************************)
WriteAtSafeCall(x, y, clr, style, text) ==
    [op |-> "WriteAtSafe", x |-> x, y |-> y, fg |-> clr, bg |-> ColorDefault,
     style |-> style, text |-> text]

\* One drawing in colour clr followed by the same drawing hidden, each with
\* its FlushSafe: drawDrop twice, or drawSplash.
DrawAndHide(x, y, clr, text) ==
    <<WriteAtSafeCall(x, y, clr, StyleNormal, text),
      [NoCall EXCEPT !.op = "FlushSafe"],
      WriteAtSafeCall(x, y, ColorDefault, StyleHidden, text),
      [NoCall EXCEPT !.op = "FlushSafe"]>>

\* for y := 0; y < height-1; y++ { drawDrop ...; drawDrop ... }
RECURSIVE Fall(_, _, _, _)
Fall(x, y, height, clr) ==
    IF y >= height - 1 THEN <<>>
    ELSE DrawAndHide(x, y, clr, Bullet) \o Fall(x, y + 1, height, clr)

\* canvas.ColorRandom()
RandomColors == {ColorRed, ColorYellow}

\* default: one drop.
RainFrame(t) ==
    /\ AtLoopHead(t)
    /\ orch.sig # "stop"
    /\ \E x \in 2..(cv.Width - 2), rclr \in RandomColors :
          prog' = [prog EXCEPT ![t].script =
                       Fall(x, 0, cv.Height, rclr)
                       \o DrawAndHide(x - 1, cv.Height - 3, rclr, <<".", " ", ".">>)
                       \o DrawAndHide(x - 2, cv.Height - 2, rclr,
                                      <<".", " ", " ", " ", ".">>)]
    /\ actor' = t
    /\ UNCHANGED <<canvasVars, orch>>

\* The canvas of the rain, without the prompt that main writes and flushes
\* before it starts the tasks.
InitRain == Constructed(MaxWidth + 1, MaxHeight, ColorDefault, FALSE)

NextRain ==
    \/ Interrupt
    \/ \E t \in Tasks :
           \/ ReceiveStop(t)
           \/ RainFrame(t)
           \/ TaskCall(t)
           \/ StepMove(t)
           \/ StepSetStyle(t)
           \/ StepSetForeground(t)
           \/ StepSetBackground(t)
           \/ StepWrite(t)
           \/ StepFlush(t)
           \/ SafeRelease(t)
           \/ SendCompleted(t)
    \/ CleanupSetBackground
    \/ CleanupClear
    \/ CleanupMove
    \/ CleanupFlush

SpecRain == InitRain /\ [][NextRain]_vars

\* C11: no task receives more than one stop or sends more than one
\* completion; and from the moment main has left its receive loop for the
\* cleanup, every task has received exactly one stop, has sent exactly one
\* completion and has returned, none of them holds the mutex or is inside a
\* guarded call, and the goroutine has sent its last stop.
C11_CleanupAfterAllCompleted ==
    /\ \A t \in Tasks : prog[t].stops <= 1 /\ prog[t].acks <= 1
    /\ orch.main # "collect"
         => /\ orch.acks = Cardinality(Tasks)
            /\ \A t \in Tasks :
                  /\ prog[t].stops = 1 /\ prog[t].acks = 1
                  /\ prog[t].at = "done"
                  /\ prog[t].script = <<>>
                  /\ pc[t] = "idle"
            /\ mutex = "free"
            /\ orch.sig = "end"

C11_Witness ==
    /\ orch.main = "Clear"
    /\ orch.acks = Cardinality(Tasks)
    /\ AllDone
    /\ cv.bg = ColorDefault /\ cv.style = StyleHidden

====
